---- MODULE Spec2Model ----
(***************************************************************************)
(* Model of lldb/tools/lldb-server/lldb-platform.cpp: option processing,   *)
(* the child / single-shot / multiplexing modes of main_platform, the      *)
(* worker spawner spawn_process, the asynchronous termination callback     *)
(* spawn_process_reaped and the session driver client_handle.              *)
(***************************************************************************)
EXTENDS Integers, Sequences, FiniteSets, TLC

VARIABLES
  pc,                  \* position of the parent (main) thread in main_platform
  nopt,                \* options consumed by the getopt loop so far
  listen_host_port,    \* TRUE iff the string listen_host_port is non-empty
  g_server,            \* 0 / 1
  socket_file,         \* TRUE iff a socket file was given
  port_offset,
  min_gdbserver_port,
  max_gdbserver_port,
  fd,                  \* handoff token, kInvalidFD when absent
  show_usage,
  option_error,
  P_given,             \* a -P value passed validation and reached AllowPort
  args_count,          \* number of trailing inferior arguments
  gdbserver_portmap,   \* the process-wide port map: port -> owner
  platform_portmap,    \* the port map moved into the platform object
  acceptor,            \* "none" | "listening" | "destroyed"
  conn,                \* the parent's copy of the connection
  naccepted,           \* successful Accept calls
  available_port,      \* std::optional<uint16_t> of the accept loop
  child_pid,           \* pid local of spawn_process
  error,               \* the Status of the last operation
  workers,             \* launched workers, indexed by pid
  outcomes,            \* per accepted connection, what the accept loop did
  connected,           \* platform.IsConnected()
  stub_launches,       \* calls of LaunchGDBServer in the session
  pending_gdb_server,  \* SetPendingGdbServer was called
  interrupt,
  done,
  exchanges,           \* GetPacketAndSendResponse calls in the session
  sessions,            \* calls of client_handle
  socket_id_writes,    \* successful save_socket_id_to_file calls
  gdbserver_portmap_mutex, \* holder of the mutex: NoThread, MainThread or
                       \* the pid whose termination callback holds it
  exit_status          \* status the process ended with (valid at pc = "exited")

vars == << pc, nopt, listen_host_port, g_server, socket_file, port_offset,
           min_gdbserver_port, max_gdbserver_port, fd, show_usage,
           option_error, P_given, args_count, gdbserver_portmap,
           platform_portmap, acceptor, conn, naccepted, available_port,
           child_pid, error, workers, outcomes, connected, stub_launches,
           pending_gdb_server, interrupt, done, exchanges, sessions,
           socket_id_writes, gdbserver_portmap_mutex, exit_status >>

optVars == << listen_host_port, g_server, socket_file, port_offset,
              min_gdbserver_port, max_gdbserver_port, fd, show_usage,
              option_error, P_given >>

sessionVars == << connected, stub_launches, pending_gdb_server, interrupt,
                  done, exchanges, sessions >>

loopVars == << conn, naccepted, available_port, child_pid, error, workers,
               outcomes, gdbserver_portmap_mutex >>

----------------------------------------------------------------------------
(* Bounds *)

MaxOpts == 6
MaxConns == 3
Scenario2Conns == 4
MaxExchanges == 2
MaxArgs == 1

(* Program constants *)

LOW_PORT == 1024
HIGH_PORT == 49151
kInvalidFD == -1
LLDB_INVALID_PROCESS_ID == 0
socket_error == -1
UINT16_MAX == 65535

(* std::nullopt of available_port *)
Nullopt == -1

(* holders of gdbserver_portmap_mutex other than a callback's pid *)
NoThread == 0
MainThread == -1

----------------------------------------------------------------------------
(* llvm::to_integer on a decimal token: the characters are folded left to  *)
(* right; a non-digit, an empty token or a value that does not fit the     *)
(* destination width makes the conversion fail (-1 here).                  *)

Digits == {"0", "1", "2", "3", "4", "5", "6", "7", "8", "9"}

DigitVal(c) ==
  CASE c = "0" -> 0 [] c = "1" -> 1 [] c = "2" -> 2 [] c = "3" -> 3
    [] c = "4" -> 4 [] c = "5" -> 5 [] c = "6" -> 6 [] c = "7" -> 7
    [] c = "8" -> 8 [] c = "9" -> 9

RECURSIVE ParseDigits(_, _, _)
ParseDigits(tok, i, acc) ==
  IF i > Len(tok) THEN acc
  ELSE IF tok[i] \notin Digits THEN -1
  ELSE ParseDigits(tok, i + 1, acc * 10 + DigitVal(tok[i]))

\* to_integer into a uint16_t
to_integer_u16(tok) ==
  IF Len(tok) = 0 THEN -1
  ELSE LET v == ParseDigits(tok, 1, 0)
       IN IF v < 0 \/ v > UINT16_MAX THEN -1 ELSE v

\* to_integer into a uint64_t; the tokens of the model are far below 2^64
to_integer_u64(tok) ==
  IF Len(tok) = 0 THEN -1 ELSE ParseDigits(tok, 1, 0)

(* Option arguments the model feeds to the getopt loop. *)
PortTokens ==
  { << "x" >>,
    << "1", "0", "2", "3" >>,
    << "9", "0", "0", "0" >>,
    << "9", "0", "0", "1" >>,
    << "9", "0", "0", "2" >>,
    << "4", "9", "1", "5", "2" >>,
    << "6", "5", "5", "3", "6" >> }

AllowTokens ==
  { << "x" >>, << "1", "0", "2", "3" >>, << "9", "0", "0", "1" >> }

OffsetTokens ==
  { << "x" >>, << "8", "0" >>, << "2", "0", "0", "0" >>,
    << "6", "5", "5", "3", "6" >> }

FdTokens == { << "x" >>, << "7" >> }

(* exit(n) / return n from main: the status seen by the parent is n mod 256 *)
ExitCode(n) == n % 256

----------------------------------------------------------------------------
(* GDBRemoteCommunicationServerPlatform::PortMap.  An entry maps an allowed *)
(* port to its owner: Free, Reserved (handed out by GetNextAvailablePort,   *)
(* not yet associated) or the pid of the worker it is associated with.      *)

Free == 0
Reserved == -1

EmptyMap == [p \in {} |-> Free]

PortMapRange(min_port, max_port) == [p \in min_port .. max_port |-> Free]

AllowPort(map, port) ==
  IF port \in DOMAIN map THEN map
  ELSE [p \in DOMAIN map \cup {port} |-> IF p = port THEN Free ELSE map[p]]

FreePorts(map) == {p \in DOMAIN map : map[p] = Free}

LowestOf(S) == CHOOSE p \in S : \A q \in S : p <= q

(* the port handed out, Nullopt when none is free *)
NextAvailablePort(map) ==
  IF FreePorts(map) = {} THEN Nullopt ELSE LowestOf(FreePorts(map))

(* the map after GetNextAvailablePort *)
GetNextAvailablePort(map) ==
  IF FreePorts(map) = {} THEN map
  ELSE [map EXCEPT ![LowestOf(FreePorts(map))] = Reserved]

AssociatePortWithProcess(map, port, pid) ==
  IF port \in DOMAIN map THEN [map EXCEPT ![port] = pid] ELSE map

FreePort(map, port) ==
  IF port \in DOMAIN map THEN [map EXCEPT ![port] = Free] ELSE map

FreePortForProcess(map, pid) ==
  [p \in DOMAIN map |-> IF map[p] = pid THEN Free ELSE map[p]]

----------------------------------------------------------------------------
Init ==
  /\ pc = "getopt"
  /\ nopt = 0
  /\ listen_host_port = FALSE
  /\ g_server = 0
  /\ socket_file = FALSE
  /\ port_offset = 0
  /\ min_gdbserver_port = 0
  /\ max_gdbserver_port = 0
  /\ fd = kInvalidFD
  /\ show_usage = FALSE
  /\ option_error = 0
  /\ P_given = FALSE
  /\ args_count = 0
  /\ gdbserver_portmap = EmptyMap
  /\ platform_portmap = EmptyMap
  /\ acceptor = "none"
  /\ conn = "none"
  /\ naccepted = 0
  /\ available_port = Nullopt
  /\ child_pid = LLDB_INVALID_PROCESS_ID
  /\ error = "ok"
  /\ workers = << >>
  /\ outcomes = << >>
  /\ connected = FALSE
  /\ stub_launches = 0
  /\ pending_gdb_server = FALSE
  /\ interrupt = FALSE
  /\ done = FALSE
  /\ exchanges = 0
  /\ sessions = 0
  /\ socket_id_writes = 0
  /\ gdbserver_portmap_mutex = NoThread
  /\ exit_status = 0

(* exit(n), or return n from main_platform *)
Exit(n) ==
  /\ pc' = "exited"
  /\ exit_status' = ExitCode(n)

\* the process has neither exited nor been aborted
ParentAlive == pc \notin {"exited", "aborted"}

\* as signal_handler, with a shutdown that ends the workers and empties the
\* port map before the process goes
signal_handler_Graceful ==
  /\ ParentAlive
  /\ pc' = "aborted"
  /\ workers' = [w \in 1 .. Len(workers) |->
                   [workers[w] EXCEPT !.signalled = TRUE,
                                      !.state = IF @ = "running"
                                                  THEN "terminated" ELSE @]]
  /\ gdbserver_portmap' = [p \in DOMAIN gdbserver_portmap |-> Free]
  /\ UNCHANGED << nopt, args_count, platform_portmap,
                  acceptor, socket_id_writes, exit_status, conn, naccepted,
                  gdbserver_portmap_mutex, available_port, child_pid, error,
                  outcomes, listen_host_port, g_server, socket_file,
                  port_offset, min_gdbserver_port, max_gdbserver_port, fd,
                  show_usage, option_error, P_given, connected, stub_launches,
                  pending_gdb_server, interrupt, done, exchanges, sessions >>

\* signal_handler(SIGHUP), installed at the start of main_platform: abort().
\* The process is ended by SIGABRT on the spot: no handler, destructor or
\* callback runs afterwards.
signal_handler ==
  /\ ParentAlive
  /\ pc' = "aborted"
  /\ UNCHANGED << nopt, args_count, gdbserver_portmap, platform_portmap,
                  acceptor, socket_id_writes, exit_status, conn, naccepted,
                  gdbserver_portmap_mutex, available_port, child_pid, error,
                  workers, outcomes, listen_host_port, g_server, socket_file,
                  port_offset, min_gdbserver_port, max_gdbserver_port, fd,
                  show_usage, option_error, P_given, connected, stub_launches,
                  pending_gdb_server, interrupt, done, exchanges, sessions >>

----------------------------------------------------------------------------
(* The getopt_long_only loop, one option per step. *)

\* case 0: --server sets g_server through its flag pointer
OptServer ==
  /\ g_server' = 1
  /\ UNCHANGED << listen_host_port, socket_file, port_offset,
                  min_gdbserver_port, max_gdbserver_port, fd, show_usage,
                  option_error, P_given, gdbserver_portmap >>

\* case 'L'
OptListen ==
  /\ listen_host_port' = TRUE
  /\ UNCHANGED << g_server, socket_file, port_offset, min_gdbserver_port,
                  max_gdbserver_port, fd, show_usage, option_error, P_given,
                  gdbserver_portmap >>

\* case 'f'
OptSocketFile ==
  /\ socket_file' = TRUE
  /\ UNCHANGED << listen_host_port, g_server, port_offset,
                  min_gdbserver_port, max_gdbserver_port, fd, show_usage,
                  option_error, P_given, gdbserver_portmap >>

\* case 'p'
OptPortOffset(optarg) ==
  LET v == to_integer_u16(optarg) IN
  /\ IF v < 0
       THEN /\ option_error' = 4
            /\ UNCHANGED port_offset
       ELSE /\ port_offset' = v
            /\ option_error' =
                 IF v < LOW_PORT \/ v > HIGH_PORT THEN 5 ELSE option_error
  /\ UNCHANGED << listen_host_port, g_server, socket_file,
                  min_gdbserver_port, max_gdbserver_port, fd, show_usage,
                  P_given, gdbserver_portmap >>

\* case 'P', 'm', 'M'
OptPort(ch, optarg) ==
  LET portnum == to_integer_u16(optarg) IN
  /\ IF portnum < 0
       THEN /\ option_error' = 2
            /\ UNCHANGED << min_gdbserver_port, max_gdbserver_port, P_given,
                            gdbserver_portmap >>
       ELSE IF portnum < LOW_PORT \/ portnum > HIGH_PORT
       THEN /\ option_error' = 1
            /\ UNCHANGED << min_gdbserver_port, max_gdbserver_port, P_given,
                            gdbserver_portmap >>
       ELSE /\ UNCHANGED option_error
            /\ IF ch = "P"
                 THEN /\ gdbserver_portmap' = AllowPort(gdbserver_portmap, portnum)
                      /\ P_given' = TRUE
                      /\ UNCHANGED << min_gdbserver_port, max_gdbserver_port >>
                 ELSE IF ch = "m"
                 THEN /\ min_gdbserver_port' = portnum
                      /\ UNCHANGED << max_gdbserver_port, P_given,
                                      gdbserver_portmap >>
                 ELSE /\ max_gdbserver_port' = portnum
                      /\ UNCHANGED << min_gdbserver_port, P_given,
                                      gdbserver_portmap >>
  /\ UNCHANGED << listen_host_port, g_server, socket_file, port_offset, fd,
                  show_usage >>

\* case 2: --child-platform-fd
OptChildFd(optarg) ==
  LET v == to_integer_u64(optarg) IN
  /\ IF v < 0
       THEN /\ option_error' = 6
            /\ UNCHANGED fd
       ELSE /\ fd' = v
            /\ UNCHANGED option_error
  /\ UNCHANGED << listen_host_port, g_server, socket_file, port_offset,
                  min_gdbserver_port, max_gdbserver_port, show_usage, P_given,
                  gdbserver_portmap >>

\* case 'h', '?'
OptHelp ==
  /\ show_usage' = TRUE
  /\ UNCHANGED << listen_host_port, g_server, socket_file, port_offset,
                  min_gdbserver_port, max_gdbserver_port, fd, option_error,
                  P_given, gdbserver_portmap >>

\* the options the model feeds to the loop: [ch, optarg]
Opt(ch, optarg) == [ch |-> ch, optarg |-> optarg]

AllOptions ==
  {Opt("server", << >>), Opt("L", << >>), Opt("f", << >>), Opt("?", << >>)}
    \cup {Opt("p", t) : t \in OffsetTokens}
    \cup {Opt("P", t) : t \in AllowTokens}
    \cup {Opt(ch, t) : ch \in {"m", "M"}, t \in PortTokens}
    \cup {Opt("fd", t) : t \in FdTokens}

\* one pass of the loop body: the switch on ch
GetoptStep(options) ==
  /\ pc = "getopt"
  /\ nopt < MaxOpts
  /\ nopt' = nopt + 1
  /\ \E o \in options :
       \/ o.ch = "server" /\ OptServer
       \/ o.ch = "L" /\ OptListen
       \/ o.ch = "f" /\ OptSocketFile
       \/ o.ch = "p" /\ OptPortOffset(o.optarg)
       \/ o.ch \in {"P", "m", "M"} /\ OptPort(o.ch, o.optarg)
       \/ o.ch = "fd" /\ OptChildFd(o.optarg)
       \/ o.ch = "?" /\ OptHelp
  /\ UNCHANGED << pc, args_count, socket_id_writes,
                  platform_portmap, acceptor, exit_status >>
  /\ UNCHANGED loopVars
  /\ UNCHANGED sessionVars

GetoptOption == GetoptStep(AllOptions)

\* getopt_long_only returned -1
GetoptEnd ==
  /\ pc = "getopt"
  /\ pc' = "setup_logging"
  /\ nopt' = 0
  /\ UNCHANGED << args_count, socket_id_writes, gdbserver_portmap,
                  platform_portmap, acceptor, exit_status >>
  /\ UNCHANGED optVars
  /\ UNCHANGED loopVars
  /\ UNCHANGED sessionVars

----------------------------------------------------------------------------
(* After the options: logging, the port map of the range, usage check. *)

\* LLDBServerUtilities::SetupLogging; on failure main_platform returns -1
SetupLogging ==
  /\ pc = "setup_logging"
  /\ \/ /\ pc' = "make_portmap"
        /\ UNCHANGED exit_status
     \/ Exit(-1)
  /\ UNCHANGED << nopt, args_count, socket_id_writes,
                  gdbserver_portmap, platform_portmap,
                  acceptor >>
  /\ UNCHANGED optVars
  /\ UNCHANGED loopVars
  /\ UNCHANGED sessionVars

\* as MakePortMap, with the range built one port past max
MakePortMap_WiderRange ==
  /\ pc = "make_portmap"
  /\ pc' = "check_usage"
  /\ IF min_gdbserver_port # 0 /\ min_gdbserver_port < max_gdbserver_port
       THEN /\ gdbserver_portmap' =
                 PortMapRange(min_gdbserver_port, max_gdbserver_port + 1)
            /\ UNCHANGED option_error
       ELSE IF min_gdbserver_port # 0 \/ max_gdbserver_port # 0
       THEN /\ option_error' = 3
            /\ UNCHANGED gdbserver_portmap
       ELSE UNCHANGED << option_error, gdbserver_portmap >>
  /\ UNCHANGED << nopt, listen_host_port, g_server, socket_file,
                  port_offset, min_gdbserver_port,
                  max_gdbserver_port, fd, show_usage,
                  P_given, args_count, socket_id_writes,
                  platform_portmap, acceptor, exit_status >>
  /\ UNCHANGED loopVars
  /\ UNCHANGED sessionVars

\* as MakePortMap, with the range built without its last port
MakePortMap_HalfOpen ==
  /\ pc = "make_portmap"
  /\ pc' = "check_usage"
  /\ IF min_gdbserver_port # 0 /\ min_gdbserver_port < max_gdbserver_port
       THEN /\ gdbserver_portmap' =
                 PortMapRange(min_gdbserver_port, max_gdbserver_port - 1)
            /\ UNCHANGED option_error
       ELSE IF min_gdbserver_port # 0 \/ max_gdbserver_port # 0
       THEN /\ option_error' = 3
            /\ UNCHANGED gdbserver_portmap
       ELSE UNCHANGED << option_error, gdbserver_portmap >>
  /\ UNCHANGED << nopt, listen_host_port, g_server, socket_file,
                  port_offset, min_gdbserver_port,
                  max_gdbserver_port, fd, show_usage,
                  P_given, args_count, socket_id_writes,
                  platform_portmap, acceptor, exit_status >>
  /\ UNCHANGED loopVars
  /\ UNCHANGED sessionVars

\* "Make a port map for a port range that was specified."
MakePortMap ==
  /\ pc = "make_portmap"
  /\ pc' = "check_usage"
  /\ IF min_gdbserver_port # 0 /\ min_gdbserver_port < max_gdbserver_port
       THEN /\ gdbserver_portmap' =
                 PortMapRange(min_gdbserver_port, max_gdbserver_port)
            /\ UNCHANGED option_error
       ELSE IF min_gdbserver_port # 0 \/ max_gdbserver_port # 0
       THEN /\ option_error' = 3
            /\ UNCHANGED gdbserver_portmap
       ELSE UNCHANGED << option_error, gdbserver_portmap >>
  /\ UNCHANGED << nopt, listen_host_port, g_server, socket_file,
                  port_offset, min_gdbserver_port,
                  max_gdbserver_port, fd, show_usage,
                  P_given, args_count, socket_id_writes,
                  platform_portmap, acceptor, exit_status >>
  /\ UNCHANGED loopVars
  /\ UNCHANGED sessionVars

\* display_usage prints the usage text and calls exit(0)
display_usage == Exit(0)

\* "Print usage and exit if no listening port is specified."; the
\* exit(option_error) that follows display_usage is never reached.  Otherwise
\* the arguments left after the options become the inferior arguments.
CheckUsage ==
  /\ pc = "check_usage"
  /\ show_usage' = (show_usage \/ (~listen_host_port /\ fd = kInvalidFD))
  /\ IF show_usage' \/ option_error # 0
       THEN /\ display_usage
            /\ UNCHANGED args_count
       ELSE /\ pc' = "mode"
            /\ args_count' \in 0 .. MaxArgs
            /\ UNCHANGED exit_status
  /\ UNCHANGED << nopt, listen_host_port, g_server, socket_file, port_offset,
                  min_gdbserver_port, max_gdbserver_port, fd, option_error,
                  P_given, gdbserver_portmap, platform_portmap, acceptor,
                  socket_id_writes >>
  /\ UNCHANGED loopVars
  /\ UNCHANGED sessionVars

----------------------------------------------------------------------------
(* Child mode: a handoff token was given. *)

\* as ChildAmbiguous, with the listen address ignored in favour of the token
ChildAmbiguous_RunsSession ==
  /\ pc = "mode"
  /\ fd # kInvalidFD
  /\ listen_host_port
  /\ pc' = "client_handle"
  /\ UNCHANGED << nopt, args_count, socket_id_writes,
                  gdbserver_portmap, platform_portmap,
                  acceptor, exit_status >>
  /\ UNCHANGED optVars
  /\ UNCHANGED loopVars
  /\ UNCHANGED sessionVars

\* --listen together with --child-platform-fd
ChildAmbiguous ==
  /\ pc = "mode"
  /\ fd # kInvalidFD
  /\ listen_host_port
  /\ Exit(socket_error)
  /\ UNCHANGED << nopt, args_count, socket_id_writes,
                  gdbserver_portmap, platform_portmap,
                  acceptor >>
  /\ UNCHANGED optVars
  /\ UNCHANGED loopVars
  /\ UNCHANGED sessionVars

\* SharedSocket::GetNativeSocket fails
ChildResolveFail ==
  /\ pc = "mode"
  /\ fd # kInvalidFD
  /\ ~listen_host_port
  /\ error' = "native_socket"
  /\ Exit(socket_error)
  /\ UNCHANGED << nopt, args_count, socket_id_writes,
                  gdbserver_portmap, platform_portmap,
                  acceptor, conn, naccepted,
                  gdbserver_portmap_mutex, available_port,
                  child_pid, workers, outcomes >>
  /\ UNCHANGED optVars
  /\ UNCHANGED sessionVars

\* the token resolves: the platform gets the port map and the connection
ChildStart ==
  /\ pc = "mode"
  /\ fd # kInvalidFD
  /\ ~listen_host_port
  /\ platform_portmap' = gdbserver_portmap
  /\ gdbserver_portmap' = EmptyMap
  /\ conn' = "open"
  /\ connected' \in BOOLEAN
  /\ pc' = "client_handle"
  /\ UNCHANGED << nopt, args_count, socket_id_writes, acceptor,
                  naccepted, gdbserver_portmap_mutex,
                  available_port, child_pid, error, workers,
                  outcomes, stub_launches,
                  pending_gdb_server, interrupt, done,
                  exchanges, sessions, exit_status >>
  /\ UNCHANGED optVars

----------------------------------------------------------------------------
(* Parent mode: acceptor, listen, socket file. *)

\* Acceptor::Create
CreateAcceptor ==
  /\ pc = "mode"
  /\ fd = kInvalidFD
  /\ \/ /\ acceptor' = "created"
        /\ pc' = "listen"
        /\ UNCHANGED << error, exit_status >>
     \/ /\ error' = "create_acceptor"
        /\ Exit(socket_error)
        /\ UNCHANGED acceptor
  /\ UNCHANGED << nopt, args_count, socket_id_writes,
                  gdbserver_portmap, platform_portmap, conn,
                  naccepted, gdbserver_portmap_mutex,
                  available_port, child_pid, workers,
                  outcomes >>
  /\ UNCHANGED optVars
  /\ UNCHANGED sessionVars

\* acceptor_up->Listen(backlog)
Listen ==
  /\ pc = "listen"
  /\ \/ /\ acceptor' = "listening"
        /\ pc' = "save_socket_id"
        /\ UNCHANGED << error, exit_status >>
     \/ /\ error' = "listen"
        /\ Exit(socket_error)
        /\ UNCHANGED acceptor
  /\ UNCHANGED << nopt, args_count, socket_id_writes,
                  gdbserver_portmap, platform_portmap, conn,
                  naccepted, gdbserver_portmap_mutex,
                  available_port, child_pid, workers,
                  outcomes >>
  /\ UNCHANGED optVars
  /\ UNCHANGED sessionVars

\* as SaveSocketId, with a failed write reported and the daemon carrying on
SaveSocketId_IgnoresFailure ==
  /\ pc = "save_socket_id"
  /\ \/ /\ ~socket_file
        /\ pc' = "accept"
        /\ UNCHANGED << error, exit_status, socket_id_writes >>
     \/ /\ socket_file
        /\ socket_id_writes' = socket_id_writes + 1
        /\ pc' = "accept"
        /\ UNCHANGED << error, exit_status >>
     \/ /\ socket_file
        /\ error' = "save_socket_id"
        /\ pc' = "accept"
        /\ UNCHANGED << socket_id_writes, exit_status >>
  /\ UNCHANGED << nopt, args_count, gdbserver_portmap, platform_portmap,
                  acceptor, conn, naccepted, gdbserver_portmap_mutex,
                  available_port, child_pid, workers, outcomes >>
  /\ UNCHANGED optVars
  /\ UNCHANGED sessionVars

\* if (socket_file) save_socket_id_to_file(...); on failure return 1
SaveSocketId ==
  /\ pc = "save_socket_id"
  /\ \/ /\ ~socket_file
        /\ pc' = "accept"
        /\ UNCHANGED << error, exit_status, socket_id_writes >>
     \/ /\ socket_file
        /\ socket_id_writes' = socket_id_writes + 1
        /\ pc' = "accept"
        /\ UNCHANGED << error, exit_status >>
     \/ /\ socket_file
        /\ error' = "save_socket_id"
        /\ Exit(1)
        /\ UNCHANGED socket_id_writes
  /\ UNCHANGED << nopt, args_count, gdbserver_portmap, platform_portmap,
                  acceptor, conn, naccepted, gdbserver_portmap_mutex,
                  available_port, child_pid, workers, outcomes >>
  /\ UNCHANGED optVars
  /\ UNCHANGED sessionVars

----------------------------------------------------------------------------
(* The accept loop. *)

startVars == << nopt, args_count, platform_portmap, acceptor,
               socket_id_writes >>

\* as AcceptUpTo, with a failed Accept reported and tried again
AcceptUpTo_Retries(clients) ==
  /\ pc = "accept"
  /\ naccepted < clients
  /\ \/ /\ error' = "ok"
        /\ conn' = "open"
        /\ naccepted' = naccepted + 1
        /\ pc' = IF g_server = 1 THEN "alloc" ELSE "single_shot"
        /\ UNCHANGED exit_status
     \/ /\ error' = "accept"
        /\ UNCHANGED << pc, conn, naccepted, exit_status >>
  /\ UNCHANGED << gdbserver_portmap, gdbserver_portmap_mutex, available_port, child_pid, workers,
                  outcomes >>
  /\ UNCHANGED startVars
  /\ UNCHANGED optVars
  /\ UNCHANGED sessionVars

\* acceptor_up->Accept(...); a failure ends the process with socket_error.
\* At most `clients` connections arrive.
AcceptUpTo(clients) ==
  /\ pc = "accept"
  /\ naccepted < clients
  /\ \/ /\ error' = "ok"
        /\ conn' = "open"
        /\ naccepted' = naccepted + 1
        /\ pc' = IF g_server = 1 THEN "alloc" ELSE "single_shot"
        /\ UNCHANGED exit_status
     \/ /\ error' = "accept"
        /\ Exit(socket_error)
        /\ UNCHANGED << conn, naccepted >>
  /\ UNCHANGED << gdbserver_portmap, gdbserver_portmap_mutex, available_port, child_pid, workers,
                  outcomes >>
  /\ UNCHANGED startVars
  /\ UNCHANGED optVars
  /\ UNCHANGED sessionVars

Accept == AcceptUpTo(MaxConns)

\* std::lock_guard<std::mutex> guard(gdbserver_portmap_mutex) of the main
\* thread: before GetNextAvailablePort, AssociatePortWithProcess, FreePort
LockPortMap ==
  /\ pc \in {"alloc", "associate", "spawn_failed"}
  /\ gdbserver_portmap_mutex = NoThread
  /\ gdbserver_portmap_mutex' = MainThread
  /\ UNCHANGED << pc, gdbserver_portmap, conn, naccepted, available_port,
                  child_pid, error, workers, outcomes, exit_status >>
  /\ UNCHANGED startVars
  /\ UNCHANGED optVars
  /\ UNCHANGED sessionVars

\* as AllocPort, with the lack of a port treated as fatal
AllocPort_DropExits ==
  /\ pc = "alloc"
  /\ gdbserver_portmap_mutex = MainThread
  /\ gdbserver_portmap_mutex' = NoThread
  /\ available_port' = NextAvailablePort(gdbserver_portmap)
  /\ gdbserver_portmap' = GetNextAvailablePort(gdbserver_portmap)
  /\ IF available_port' = Nullopt
       THEN /\ outcomes' = Append(outcomes, "dropped")
            /\ Exit(socket_error)
       ELSE /\ pc' = "spawn_wrap"
            /\ UNCHANGED << outcomes, exit_status >>
  /\ UNCHANGED << conn, naccepted, child_pid, error, workers >>
  /\ UNCHANGED startVars
  /\ UNCHANGED optVars
  /\ UNCHANGED sessionVars

\* server mode: take the next available port under the map's mutex; with no
\* port the connection is dropped
AllocPort ==
  /\ pc = "alloc"
  /\ gdbserver_portmap_mutex = MainThread
  /\ gdbserver_portmap_mutex' = NoThread
  /\ available_port' = NextAvailablePort(gdbserver_portmap)
  /\ gdbserver_portmap' = GetNextAvailablePort(gdbserver_portmap)
  /\ IF available_port' = Nullopt
       THEN /\ outcomes' = Append(outcomes, "dropped")
            /\ pc' = "delete_conn"
       ELSE /\ pc' = "spawn_wrap"
            /\ UNCHANGED outcomes
  /\ UNCHANGED << conn, naccepted, child_pid, error, workers, exit_status >>
  /\ UNCHANGED startVars
  /\ UNCHANGED optVars
  /\ UNCHANGED sessionVars

----------------------------------------------------------------------------
(* spawn_process(progname, conn_socket, gdb_port = *available_port, ...) *)

\* SharedSocket shared_socket(conn_socket, error)
SpawnWrap ==
  /\ pc = "spawn_wrap"
  /\ \/ /\ error' = "ok"
        /\ pc' = "launch"
     \/ /\ error' = "shared_socket"
        /\ pc' = "spawn_failed"
  /\ UNCHANGED << gdbserver_portmap, conn, naccepted,
                  gdbserver_portmap_mutex, available_port,
                  child_pid, workers, outcomes, exit_status >>
  /\ UNCHANGED startVars
  /\ UNCHANGED optVars
  /\ UNCHANGED sessionVars

NewWorker(gdb_port) ==
  [state |-> "running", port |-> gdb_port, signalled |-> FALSE]

\* Host::LaunchProcess(launch_info) and the check of the pid; the worker is
\* launched with --gdbserver-port gdb_port and monitored by
\* spawn_process_reaped
Launch ==
  /\ pc = "launch"
  /\ \/ /\ error' = "launch"
        /\ pc' = "spawn_failed"
        /\ UNCHANGED << workers, child_pid >>
     \/ /\ error' = "invalid pid"
        /\ pc' = "spawn_failed"
        /\ UNCHANGED << workers, child_pid >>
     \/ /\ workers' = Append(workers, NewWorker(available_port))
        /\ child_pid' = Len(workers) + 1
        /\ pc' = "associate"
        /\ UNCHANGED error
  /\ UNCHANGED << gdbserver_portmap, conn, naccepted,
                  gdbserver_portmap_mutex, available_port,
                  outcomes, exit_status >>
  /\ UNCHANGED startVars
  /\ UNCHANGED optVars
  /\ UNCHANGED sessionVars

\* gdbserver_portmap.AssociatePortWithProcess(gdb_port, child_pid), locked
Associate ==
  /\ pc = "associate"
  /\ gdbserver_portmap_mutex = MainThread
  /\ gdbserver_portmap_mutex' = NoThread
  /\ gdbserver_portmap' =
       AssociatePortWithProcess(gdbserver_portmap, available_port, child_pid)
  /\ pc' = "complete"
  /\ UNCHANGED << conn, naccepted, available_port, child_pid, error, workers,
                  outcomes, exit_status >>
  /\ UNCHANGED startVars
  /\ UNCHANGED optVars
  /\ UNCHANGED sessionVars

\* Host::Kill(pid, SIGTERM): the worker is terminated
Kill(ws, pid) ==
  [ws EXCEPT ![pid].signalled = TRUE,
             ![pid].state = IF @ = "running" THEN "terminated" ELSE @]

\* as CompleteSendingOk, with the parent's copy closed by the handoff itself
CompleteSendingOk_ClosesConn ==
  /\ pc = "complete"
  /\ error' = "ok"
  /\ outcomes' = Append(outcomes, "worker")
  /\ conn' = "closed"
  /\ pc' = "delete_conn"
  /\ UNCHANGED << gdbserver_portmap, naccepted,
                  gdbserver_portmap_mutex, available_port,
                  child_pid, workers, exit_status >>
  /\ UNCHANGED startVars
  /\ UNCHANGED optVars
  /\ UNCHANGED sessionVars

\* shared_socket.CompleteSending(child_pid) succeeds
CompleteSendingOk ==
  /\ pc = "complete"
  /\ error' = "ok"
  /\ outcomes' = Append(outcomes, "worker")
  /\ pc' = "delete_conn"
  /\ UNCHANGED << gdbserver_portmap, conn, naccepted,
                  gdbserver_portmap_mutex, available_port,
                  child_pid, workers, exit_status >>
  /\ UNCHANGED startVars
  /\ UNCHANGED optVars
  /\ UNCHANGED sessionVars

\* as CompleteSendingFail, without the Host::Kill
CompleteSendingFail_NoKill ==
  /\ pc = "complete"
  /\ error' = "handoff"
  /\ pc' = "spawn_failed"
  /\ UNCHANGED << gdbserver_portmap, conn, naccepted,
                  gdbserver_portmap_mutex, available_port,
                  child_pid, workers, outcomes, exit_status >>
  /\ UNCHANGED startVars
  /\ UNCHANGED optVars
  /\ UNCHANGED sessionVars

\* shared_socket.CompleteSending(child_pid) fails: kill the worker, return
\* the error
CompleteSendingFail ==
  /\ pc = "complete"
  /\ error' = "handoff"
  /\ workers' = Kill(workers, child_pid)
  /\ pc' = "spawn_failed"
  /\ UNCHANGED << gdbserver_portmap, conn, naccepted,
                  gdbserver_portmap_mutex, available_port,
                  child_pid, outcomes, exit_status >>
  /\ UNCHANGED startVars
  /\ UNCHANGED optVars
  /\ UNCHANGED sessionVars

\* as SpawnFailed, without the FreePort
SpawnFailed_NoFree ==
  /\ pc = "spawn_failed"
  /\ gdbserver_portmap_mutex = MainThread
  /\ gdbserver_portmap_mutex' = NoThread
  /\ outcomes' = Append(outcomes, IF error = "handoff" THEN "handoff_failed"
                                                       ELSE "launch_failed")
  /\ pc' = "delete_conn"
  /\ UNCHANGED << gdbserver_portmap, conn, naccepted,
                  available_port,
                  child_pid, error, workers, exit_status >>
  /\ UNCHANGED startVars
  /\ UNCHANGED optVars
  /\ UNCHANGED sessionVars

\* as SpawnFailed, freeing the port only while no worker is associated
SpawnFailed_FreeOnlyReserved ==
  /\ pc = "spawn_failed"
  /\ gdbserver_portmap_mutex = MainThread
  /\ gdbserver_portmap_mutex' = NoThread
  /\ gdbserver_portmap' =
       IF gdbserver_portmap[available_port] = Reserved
         THEN FreePort(gdbserver_portmap, available_port)
         ELSE gdbserver_portmap
  /\ outcomes' = Append(outcomes, IF error = "handoff" THEN "handoff_failed"
                                                       ELSE "launch_failed")
  /\ pc' = "delete_conn"
  /\ UNCHANGED << conn, naccepted, available_port, child_pid, error, workers,
                  exit_status >>
  /\ UNCHANGED startVars
  /\ UNCHANGED optVars
  /\ UNCHANGED sessionVars

\* back in the accept loop with error.Fail(): free the reserved port, locked
SpawnFailed ==
  /\ pc = "spawn_failed"
  /\ gdbserver_portmap_mutex = MainThread
  /\ gdbserver_portmap_mutex' = NoThread
  /\ gdbserver_portmap' = FreePort(gdbserver_portmap, available_port)
  /\ outcomes' = Append(outcomes, IF error = "handoff" THEN "handoff_failed"
                                                       ELSE "launch_failed")
  /\ pc' = "delete_conn"
  /\ UNCHANGED << conn, naccepted, available_port, child_pid, error, workers,
                  exit_status >>
  /\ UNCHANGED startVars
  /\ UNCHANGED optVars
  /\ UNCHANGED sessionVars

\* as DeleteConn, reached only once no worker is running any more
DeleteConn_WaitsForWorkers ==
  /\ pc = "delete_conn"
  /\ \A w \in 1 .. Len(workers) : workers[w].state # "running"
  /\ conn' = IF conn = "open" THEN "closed" ELSE "closed_twice"
  /\ available_port' = Nullopt
  /\ child_pid' = LLDB_INVALID_PROCESS_ID
  /\ pc' = "accept"
  /\ UNCHANGED << gdbserver_portmap, naccepted,
                  gdbserver_portmap_mutex, error, workers,
                  outcomes, exit_status >>
  /\ UNCHANGED startVars
  /\ UNCHANGED optVars
  /\ UNCHANGED sessionVars

\* "Parent doesn't need a connection to the lldb client": delete conn;
\* continue.  Deleting a connection that is not open any more is recorded.
DeleteConn ==
  /\ pc = "delete_conn"
  /\ conn' = IF conn = "open" THEN "closed" ELSE "closed_twice"
  /\ available_port' = Nullopt
  /\ child_pid' = LLDB_INVALID_PROCESS_ID
  /\ pc' = "accept"
  /\ UNCHANGED << gdbserver_portmap, naccepted,
                  gdbserver_portmap_mutex, error, workers,
                  outcomes, exit_status >>
  /\ UNCHANGED startVars
  /\ UNCHANGED optVars
  /\ UNCHANGED sessionVars

----------------------------------------------------------------------------
(* Workers and the monitor thread. *)

\* a worker ends, by exit or by a signal, at any time after its launch
WorkerTerminate(w) ==
  /\ workers[w].state = "running"
  /\ workers' = [workers EXCEPT ![w].state = "terminated"]
  /\ UNCHANGED << pc, gdbserver_portmap, conn, naccepted,
                  gdbserver_portmap_mutex, available_port,
                  child_pid, error, outcomes, exit_status >>
  /\ UNCHANGED startVars
  /\ UNCHANGED optVars
  /\ UNCHANGED sessionVars

\* the monitor callback of a terminated worker, on the monitor's thread:
\* std::lock_guard<std::mutex> guard(gdbserver_portmap_mutex)
spawn_process_reaped_lock(pid) ==
  /\ ParentAlive
  /\ workers[pid].state = "terminated"
  /\ gdbserver_portmap_mutex = NoThread
  /\ gdbserver_portmap_mutex' = pid
  /\ UNCHANGED << pc, gdbserver_portmap, conn, naccepted, available_port,
                  child_pid, error, workers, outcomes, exit_status >>
  /\ UNCHANGED startVars
  /\ UNCHANGED optVars
  /\ UNCHANGED sessionVars

\* as spawn_process_reaped, without the lock_guard
spawn_process_reaped_Unlocked(pid) ==
  /\ ParentAlive
  /\ gdbserver_portmap_mutex' =
       IF gdbserver_portmap_mutex = pid THEN NoThread
                                        ELSE gdbserver_portmap_mutex
  /\ workers[pid].state = "terminated"
  /\ workers' = [workers EXCEPT ![pid].state = "reaped"]
  /\ gdbserver_portmap' = FreePortForProcess(gdbserver_portmap, pid)
  /\ UNCHANGED << pc, conn, naccepted, available_port, child_pid, error, outcomes,
                  exit_status >>
  /\ UNCHANGED startVars
  /\ UNCHANGED optVars
  /\ UNCHANGED sessionVars

\* ... gdbserver_portmap.FreePortForProcess(pid), and the guard's release
spawn_process_reaped(pid) ==
  /\ ParentAlive
  /\ gdbserver_portmap_mutex = pid
  /\ gdbserver_portmap_mutex' = NoThread
  /\ workers[pid].state = "terminated"
  /\ workers' = [workers EXCEPT ![pid].state = "reaped"]
  /\ gdbserver_portmap' = FreePortForProcess(gdbserver_portmap, pid)
  /\ UNCHANGED << pc, conn, naccepted, available_port, child_pid, error, outcomes,
                  exit_status >>
  /\ UNCHANGED startVars
  /\ UNCHANGED optVars
  /\ UNCHANGED sessionVars

----------------------------------------------------------------------------
(* Single-shot mode and the session (client_handle). *)

\* not a server: destroy the acceptor, give the whole port map and the
\* connection to the platform (the moved-from global map is left empty)
SingleShot ==
  /\ pc = "single_shot"
  /\ acceptor' = "destroyed"
  /\ platform_portmap' = gdbserver_portmap
  /\ gdbserver_portmap' = EmptyMap
  /\ connected' \in BOOLEAN
  /\ pc' = "client_handle"
  /\ UNCHANGED << nopt, args_count, socket_id_writes,
                  stub_launches, pending_gdb_server,
                  interrupt, done, exchanges, sessions, exit_status >>
  /\ UNCHANGED optVars
  /\ UNCHANGED loopVars

sessionFrame ==
  /\ UNCHANGED << gdbserver_portmap, exit_status >>
  /\ UNCHANGED startVars
  /\ UNCHANGED optVars
  /\ UNCHANGED loopVars

\* as ClientHandleStart, with a failed launch of the stub ending the session
ClientHandleStart_LaunchFailureEnds ==
  /\ pc = "client_handle"
  /\ IF ~connected
       THEN /\ pc' = "exiting"
            /\ UNCHANGED << stub_launches, pending_gdb_server >>
       ELSE IF args_count > 0
              THEN /\ stub_launches' = stub_launches + 1
                   /\ \/ pending_gdb_server' = TRUE /\ pc' = "session_loop"
                      \/ UNCHANGED pending_gdb_server /\ pc' = "exiting"
              ELSE /\ pc' = "session_loop"
                   /\ UNCHANGED << stub_launches, pending_gdb_server >>
  /\ interrupt' = FALSE
  /\ done' = FALSE
  /\ sessions' = sessions + 1
  /\ UNCHANGED << connected, exchanges >>
  /\ sessionFrame

\* as ClientHandleStart, with the stub launched whatever the arguments are
ClientHandleStart_AlwaysLaunches ==
  /\ pc = "client_handle"
  /\ IF ~connected
       THEN /\ pc' = "exiting"
            /\ UNCHANGED << stub_launches, pending_gdb_server >>
       ELSE /\ pc' = "session_loop"
            /\ stub_launches' = stub_launches + 1
            /\ \/ pending_gdb_server' = TRUE
               \/ UNCHANGED pending_gdb_server
  /\ interrupt' = FALSE
  /\ done' = FALSE
  /\ sessions' = sessions + 1
  /\ UNCHANGED << connected, exchanges >>
  /\ sessionFrame

\* client_handle up to the loop: the connection check and the debug stub
ClientHandleStart ==
  /\ pc = "client_handle"
  /\ IF ~connected
       THEN /\ pc' = "exiting"
            /\ UNCHANGED << stub_launches, pending_gdb_server >>
       ELSE /\ pc' = "session_loop"
            /\ IF args_count > 0
                 THEN /\ stub_launches' = stub_launches + 1
                      /\ \/ pending_gdb_server' = TRUE
                         \/ UNCHANGED pending_gdb_server
                 ELSE UNCHANGED << stub_launches, pending_gdb_server >>
  /\ interrupt' = FALSE
  /\ done' = FALSE
  /\ sessions' = sessions + 1
  /\ UNCHANGED << connected, exchanges >>
  /\ sessionFrame

\* as SessionExchange, with the loop condition reduced to !interrupt
SessionExchange_IgnoresDone ==
  /\ pc = "session_loop"
  /\ ~interrupt
  /\ exchanges < MaxExchanges
  /\ exchanges' = exchanges + 1
  /\ interrupt' \in BOOLEAN
  /\ done' \in BOOLEAN
  /\ \/ pc' = "session_loop"
     \/ pc' = "exiting"
  /\ UNCHANGED << connected, sessions, stub_launches,
                  pending_gdb_server >>
  /\ sessionFrame

\* one GetPacketAndSendResponse; it may set interrupt and done
SessionExchange ==
  /\ pc = "session_loop"
  /\ ~interrupt /\ ~done
  /\ exchanges < MaxExchanges
  /\ exchanges' = exchanges + 1
  /\ interrupt' \in BOOLEAN
  /\ done' \in BOOLEAN
  /\ \/ pc' = "session_loop"     \* PacketResult::Success
     \/ pc' = "exiting"          \* any other result: break
  /\ UNCHANGED << connected, sessions, stub_launches,
                  pending_gdb_server >>
  /\ sessionFrame

\* while (!interrupt && !done) ends
SessionLoopEnd ==
  /\ pc = "session_loop"
  /\ interrupt \/ done
  /\ pc' = "exiting"
  /\ UNCHANGED sessionVars
  /\ sessionFrame

\* as SessionReturn, with the parent's loop repeated after the session
SessionReturn_Repeat ==
  /\ pc = "exiting"
  /\ conn' = "closed"
  /\ IF fd = kInvalidFD
       THEN pc' = "accept" /\ UNCHANGED exit_status
       ELSE Exit(0)
  /\ UNCHANGED << gdbserver_portmap, naccepted,
                  gdbserver_portmap_mutex, available_port,
                  child_pid, error, workers, outcomes >>
  /\ UNCHANGED startVars
  /\ UNCHANGED optVars
  /\ UNCHANGED sessionVars

\* "Disconnected.", "lldb-server exiting...", return 0
SessionReturn ==
  /\ pc = "exiting"
  /\ conn' = "closed"
  /\ Exit(0)
  /\ UNCHANGED << gdbserver_portmap, naccepted,
                  gdbserver_portmap_mutex, available_port,
                  child_pid, error, workers, outcomes >>
  /\ UNCHANGED startVars
  /\ UNCHANGED optVars
  /\ UNCHANGED sessionVars

----------------------------------------------------------------------------
Next ==
  \/ GetoptOption
  \/ GetoptEnd
  \/ SetupLogging
  \/ MakePortMap
  \/ CheckUsage
  \/ ChildAmbiguous
  \/ ChildResolveFail
  \/ ChildStart
  \/ CreateAcceptor
  \/ Listen
  \/ SaveSocketId
  \/ Accept
  \/ LockPortMap
  \/ AllocPort
  \/ SpawnWrap
  \/ Launch
  \/ Associate
  \/ CompleteSendingOk
  \/ CompleteSendingFail
  \/ SpawnFailed
  \/ DeleteConn
  \/ \E w \in 1 .. Len(workers) : WorkerTerminate(w)
  \/ \E w \in 1 .. Len(workers) : spawn_process_reaped_lock(w)
  \/ \E w \in 1 .. Len(workers) : spawn_process_reaped(w)
  \/ SingleShot
  \/ ClientHandleStart
  \/ SessionExchange
  \/ SessionLoopEnd
  \/ SessionReturn

Spec == Init /\ [][Next]_vars

----------------------------------------------------------------------------
(* The daemon with a SIGHUP that may be delivered at any moment. *)

SignalNext ==
  \/ Next
  \/ signal_handler

SignalSpec == Init /\ [][SignalNext]_vars

----------------------------------------------------------------------------
(* The processes that run a session themselves: a child started with a     *)
(* handoff token and a single-shot daemon.  The thread that runs           *)
(* client_handle keeps running: it leaves a loop whose condition is false  *)
(* and returns from main_platform.                                         *)

SessionOptions ==
  {Opt("L", << >>), Opt("f", << >>)} \cup {Opt("fd", t) : t \in FdTokens}

SessionGetopt == GetoptStep(SessionOptions)

SessionAccept == AcceptUpTo(1)

SessionNext ==
  \/ SessionGetopt
  \/ GetoptEnd
  \/ SetupLogging
  \/ MakePortMap
  \/ CheckUsage
  \/ ChildAmbiguous
  \/ ChildResolveFail
  \/ ChildStart
  \/ CreateAcceptor
  \/ Listen
  \/ SaveSocketId
  \/ SessionAccept
  \/ SingleShot
  \/ ClientHandleStart
  \/ SessionExchange
  \/ SessionLoopEnd
  \/ SessionReturn

SessionFairSpec ==
  /\ Init
  /\ [][SessionNext]_vars
  /\ WF_vars(SessionLoopEnd)
  /\ WF_vars(SessionReturn)

----------------------------------------------------------------------------
(* End-to-end scenario 2: the daemon started as                            *)
(*   --server --listen ... --min-gdbserver-port 9000                       *)
(*                         --max-gdbserver-port 9002                       *)
(* and up to Scenario2Conns clients.                                       *)

Scenario2Options ==
  { Opt("server", << >>), Opt("L", << >>),
    Opt("m", << "9", "0", "0", "0" >>), Opt("M", << "9", "0", "0", "2" >>) }

Scenario2Getopt == GetoptStep(Scenario2Options)

Scenario2Accept == AcceptUpTo(Scenario2Conns)

Scenario2Next ==
  \/ Scenario2Getopt
  \/ GetoptEnd
  \/ SetupLogging
  \/ MakePortMap
  \/ CheckUsage
  \/ CreateAcceptor
  \/ Listen
  \/ SaveSocketId
  \/ Scenario2Accept
  \/ LockPortMap
  \/ AllocPort
  \/ SpawnWrap
  \/ Launch
  \/ Associate
  \/ CompleteSendingOk
  \/ CompleteSendingFail
  \/ SpawnFailed
  \/ DeleteConn
  \/ \E w \in 1 .. Len(workers) : WorkerTerminate(w)
  \/ \E w \in 1 .. Len(workers) : spawn_process_reaped_lock(w)
  \/ \E w \in 1 .. Len(workers) : spawn_process_reaped(w)

Scenario2Spec == Init /\ [][Scenario2Next]_vars

----------------------------------------------------------------------------
(* Vocabulary of the properties. *)

Pids == 1 .. Len(workers)
Alive(w) == workers[w].state = "running"
Last(seq) == seq[Len(seq)]
CountOf(seq, v) == Cardinality({i \in 1 .. Len(seq) : seq[i] = v})
OwnedPorts(map, pid) == {p \in DOMAIN map : map[p] = pid}
LaunchErrors == {"shared_socket", "launch", "invalid pid"}
InSpawnFor(w) == child_pid = w /\ pc \in {"associate", "complete", "spawn_failed"}
RangeConfigured ==
  /\ pc \notin {"getopt", "setup_logging", "make_portmap"}
  /\ min_gdbserver_port # 0
  /\ min_gdbserver_port < max_gdbserver_port
RangePorts == min_gdbserver_port .. max_gdbserver_port

----------------------------------------------------------------------------
(* C1: in server mode no two workers that are alive at the same time were  *)
(* launched with the same allocated port, whatever the sequence of accepts,*)
(* launch failures, failed handoffs and asynchronously reaped exits.       *)
C1_LiveWorkersHaveDistinctPorts ==
  \A w1 \in Pids : \A w2 \in Pids :
    (w1 # w2 /\ Alive(w1) /\ Alive(w2)) => workers[w1].port # workers[w2].port

\* two live workers, while the port of a worker killed after a failed
\* handoff has been handed to a later, live worker
C1_Witness ==
  /\ \E w1 \in Pids : \E w2 \in Pids : w1 # w2 /\ Alive(w1) /\ Alive(w2)
  /\ \E k \in Pids : \E w \in Pids :
       /\ workers[k].signalled
       /\ Alive(w)
       /\ workers[w].port = workers[k].port

(* C2: once a worker launched with an allocated port has terminated and    *)
(* spawn_process_reaped has run for it (and spawn_process is no longer     *)
(* working on that worker), the pool no longer holds its port for it, in   *)
(* every interleaving of the callback with launch/associate/handoff.       *)
C2_ReapedWorkerHoldsNoPort ==
  \A w \in Pids :
    (workers[w].state = "reaped" /\ ~InSpawnFor(w))
      => OwnedPorts(gdbserver_portmap, w) = {}

C4_NoPortDropsConnection ==
  [][/\ (pc = "alloc" /\ pc' # "alloc" /\ FreePorts(gdbserver_portmap) = {}) =>
          /\ pc' = "delete_conn"
          /\ available_port' = Nullopt
          /\ gdbserver_portmap' = gdbserver_portmap
          /\ workers' = workers
          /\ outcomes' = Append(outcomes, "dropped")
     /\ (pc = "delete_conn" /\ pc' # "delete_conn") =>
          /\ conn' = "closed"
          /\ pc' = "accept"]_vars

\* after a drop the loop has accepted a further connection
C4_Witness ==
  /\ pc = "alloc"
  /\ Len(outcomes) > 0
  /\ Last(outcomes) = "dropped"
  /\ Len(workers) > 0

(* Scenario 2: server mode with min=9000, max=9002, four connections       *)
(* accepted and handled, every handoff completed, no worker has exited.    *)
Scenario2 ==
  /\ RangeConfigured
  /\ g_server = 1
  /\ min_gdbserver_port = 9000
  /\ max_gdbserver_port = 9002
  /\ Len(outcomes) = 4
  /\ pc = "delete_conn"
  /\ \A i \in 1 .. 4 : outcomes[i] \in {"worker", "dropped"}
  /\ \A w \in Pids : Alive(w)

C6_LaunchFailureFreesPort ==
  /\ (pc = "spawn_failed" /\ error \in LaunchErrors) =>
       /\ gdbserver_portmap[available_port] = Reserved
       /\ child_pid = LLDB_INVALID_PROCESS_ID
  /\ (pc = "delete_conn" /\ error \in LaunchErrors) =>
       /\ gdbserver_portmap[available_port] = Free
       /\ Last(outcomes) = "launch_failed"
  /\ error \in LaunchErrors => pc \in {"spawn_failed", "delete_conn", "accept"}

\* the port of a failed launch is free again while an earlier worker lives
C6_Witness ==
  /\ pc = "delete_conn"
  /\ error \in LaunchErrors
  /\ gdbserver_portmap[available_port] = Free
  /\ \E w \in Pids : Alive(w)

(* C7: when the worker was launched but completing the handoff fails, the  *)
(* worker is sent a termination signal, the handoff error is returned, the *)
(* accept loop frees the port and keeps accepting, and from then on the    *)
(* pool holds no association to the killed worker.                         *)
C7_HandoffFailureKillsAndFrees ==
  /\ (pc = "spawn_failed" /\ error = "handoff") =>
       /\ workers[child_pid].signalled
       /\ ~Alive(child_pid)
  /\ (pc = "delete_conn" /\ error = "handoff") =>
       /\ gdbserver_portmap[available_port] = Free
       /\ Last(outcomes) = "handoff_failed"
  /\ error = "handoff" => pc \in {"spawn_failed", "delete_conn", "accept"}
  /\ \A w \in Pids :
       (workers[w].signalled /\ ~(pc = "spawn_failed" /\ child_pid = w))
         => OwnedPorts(gdbserver_portmap, w) = {}

\* back at accept after a failed handoff whose worker was associated
C7_Witness ==
  /\ pc = "accept"
  /\ error = "handoff"
  /\ \E w \in Pids : workers[w].signalled /\ workers[w].state = "terminated"

(* C8: every configuration error found while processing the options makes *)
(* the process exit with a nonzero status, before any acceptor is created  *)
(* or any connection accepted.                                             *)
C8_ConfigErrorExitsNonzero ==
  (pc = "exited" /\ option_error # 0) =>
    /\ exit_status # 0
    /\ acceptor = "none"
    /\ naccepted = 0

(* C9: when both -P and a min/max range are given the configuration is     *)
(* rejected: the process never reaches listening.                          *)
C9_AllowListAndRangeRejected ==
  (P_given /\ (min_gdbserver_port # 0 \/ max_gdbserver_port # 0)) =>
    /\ acceptor = "none"
    /\ naccepted = 0

(* C10: in single-shot mode the daemon accepts exactly one connection,     *)
(* destroys the acceptor and moves the whole port map to the platform      *)
(* before the session starts, runs the session itself, exits with status 0 *)
(* when the session ends, and never executes the accept step again.        *)
C10_SingleShot ==
  /\ [](g_server = 0 => naccepted <= 1 /\ workers = << >>)
  /\ []((g_server = 0 /\ pc = "accept") => naccepted = 0)
  /\ []((fd = kInvalidFD /\ pc \in {"client_handle", "session_loop", "exiting"}) =>
          /\ g_server = 0
          /\ naccepted = 1
          /\ acceptor = "destroyed")
  /\ []((pc = "exited" /\ acceptor = "destroyed") =>
          exit_status = 0 /\ naccepted = 1 /\ conn = "closed")
  /\ [][pc = "single_shot" =>
          /\ pc' = "client_handle"
          /\ acceptor' = "destroyed"
          /\ platform_portmap' = gdbserver_portmap]_vars

\* a single-shot session over a configured port map has ended
C10_Witness ==
  /\ pc = "exited"
  /\ acceptor = "destroyed"
  /\ exchanges > 0
  /\ DOMAIN platform_portmap # {}
  /\ exit_status = 0

----------------------------------------------------------------------------
(* Vocabulary of the accept loop. *)

\* multiplexing mode: --server without a handoff token
MultiplexingMode == g_server = 1 /\ fd = kInvalidFD

\* the parent's positions between one Accept and the next
LoopPcs == {"alloc", "spawn_wrap", "launch", "associate", "complete",
            "spawn_failed", "delete_conn"}

SessionPcs == {"single_shot", "client_handle", "session_loop", "exiting"}

\* what remains of the loop body, counted in statements
LoopRank(p) ==
  CASE p = "alloc"        -> 7
    [] p = "spawn_wrap"   -> 6
    [] p = "launch"       -> 5
    [] p = "associate"    -> 4
    [] p = "complete"     -> 3
    [] p = "spawn_failed" -> 2
    [] p = "delete_conn"  -> 1
    [] OTHER              -> 0

\* a step of the parent's thread inside the loop body
ParentLoopStep ==
  \/ LockPortMap
  \/ AllocPort
  \/ SpawnWrap
  \/ Launch
  \/ Associate
  \/ CompleteSendingOk
  \/ CompleteSendingFail
  \/ SpawnFailed
  \/ DeleteConn

\* the termination callback that holds the mutex can finish
CallbackCanFinish ==
  /\ gdbserver_portmap_mutex \in Pids
  /\ ENABLED spawn_process_reaped(gdbserver_portmap_mutex)

----------------------------------------------------------------------------
(* C11: in multiplexing mode the parent never runs a session itself; every *)
(* accepted connection gets one of the four outcomes (dropped, failed      *)
(* spawn, failed handoff, worker launched) and the parent is back at the   *)
(* accept step after a bounded number of its own statements, none of which *)
(* waits for a worker to terminate: within the loop body the parent always *)
(* has a statement to execute, whatever the state of the workers, except   *)
(* while a termination callback holds the mutex, and that callback can     *)
(* finish at once.                                                         *)
C11_ParentReturnsToAccept ==
  /\ [](MultiplexingMode => sessions = 0 /\ pc \notin SessionPcs)
  /\ []((MultiplexingMode /\ pc = "accept") => Len(outcomes) = naccepted)
  /\ []((MultiplexingMode /\ pc \in LoopPcs) =>
          (ENABLED ParentLoopStep) \/ CallbackCanFinish)
  /\ [][(pc \in LoopPcs /\ pc' # pc) =>
          /\ pc' \in LoopPcs \cup {"accept"}
          /\ LoopRank(pc') < LoopRank(pc)
          /\ workers' = workers \/ pc \in {"launch", "complete"}]_vars

\* back at the accept step after a failed handoff, a launched worker and a
\* dropped connection, with a worker still running
C11_Witness ==
  /\ MultiplexingMode
  /\ pc = "accept"
  /\ \E w \in Pids : Alive(w)
  /\ {"handoff_failed", "worker", "dropped"} \subseteq
       {outcomes[i] : i \in 1 .. Len(outcomes)}

----------------------------------------------------------------------------
(* C12: a process given a handoff token never creates an acceptor, never   *)
(* accepts and never launches a worker.  Once its options are accepted, it *)
(* leaves the mode selection either for exactly one call of client_handle  *)
(* on the connection resolved from the token, after which it exits with    *)
(* status 0 and runs nothing else, or, when a listen address was given too *)
(* or the token does not resolve, for a nonzero exit without any session.  *)
TokenSupplied == fd # kInvalidFD

C12_ChildMode ==
  /\ [](TokenSupplied =>
          /\ acceptor = "none"
          /\ naccepted = 0
          /\ workers = << >>
          /\ sessions <= 1)
  /\ []((TokenSupplied /\ pc \in {"session_loop", "exiting"}) =>
          sessions = 1 /\ conn = "open")
  /\ []((TokenSupplied /\ pc = "exited" /\ sessions = 1) =>
          /\ exit_status = 0
          /\ ~listen_host_port
          /\ error # "native_socket")
  /\ []((TokenSupplied /\ pc = "exited"
           /\ (listen_host_port \/ error = "native_socket")) =>
          sessions = 0 /\ (show_usage \/ option_error # 0 \/ exit_status # 0))
  /\ []((TokenSupplied /\ pc = "exited" /\ exit_status = 0
           /\ ~show_usage /\ option_error = 0) =>
          sessions = 1)
  /\ [][(TokenSupplied /\ pc = "mode" /\ pc' # pc) =>
          IF listen_host_port \/ error' = "native_socket"
            THEN pc' = "exited" /\ exit_status' # 0 /\ sessions' = 0
            ELSE pc' = "client_handle" /\ conn' = "open"]_vars
  /\ [][(TokenSupplied /\ pc = "exiting" /\ pc' # pc) =>
          pc' = "exited" /\ exit_status' = 0]_vars

\* a child has run its one session, with at least one exchange, and exited
C12_Witness ==
  /\ TokenSupplied
  /\ pc = "exited"
  /\ sessions = 1
  /\ exchanges > 0
  /\ exit_status = 0

----------------------------------------------------------------------------
(* C13: once workers may exist, every operation on the port map runs with  *)
(* the mutex held by the thread that performs it and releases it           *)
(* afterwards: allocate-next, associate and free on the parent's thread,   *)
(* free-for-worker in the termination callback.  The mutex has one holder  *)
(* at a time, so a callback never operates on the map between the lock and *)
(* the unlock of the accept loop, nor the accept loop inside a callback;   *)
(* the map changes without the mutex only while no worker was launched.    *)
PoolOpPcs == {"alloc", "associate", "spawn_failed"}

C13_PoolOpsUnderMutex ==
  /\ [](gdbserver_portmap_mutex \in {NoThread, MainThread} \cup Pids)
  /\ [](gdbserver_portmap_mutex = MainThread => pc \in PoolOpPcs)
  /\ [](gdbserver_portmap_mutex \in Pids =>
          workers[gdbserver_portmap_mutex].state = "terminated")
  /\ [][(pc \in PoolOpPcs /\ pc' # pc) =>
          /\ gdbserver_portmap_mutex = MainThread
          /\ gdbserver_portmap_mutex' = NoThread]_vars
  /\ [][\A w \in Pids :
          (workers[w].state # "reaped" /\ workers'[w].state = "reaped") =>
            /\ gdbserver_portmap_mutex = w
            /\ gdbserver_portmap_mutex' = NoThread]_vars
  /\ [][gdbserver_portmap' # gdbserver_portmap =>
          \/ workers = << >> /\ gdbserver_portmap_mutex = NoThread
          \/ /\ gdbserver_portmap_mutex # NoThread
             /\ gdbserver_portmap_mutex' = NoThread]_vars

\* the parent is about to associate the port of the worker it has just
\* launched while that worker's termination callback holds the mutex
C13_Witness ==
  /\ pc = "associate"
  /\ gdbserver_portmap_mutex = child_pid
  /\ ~ENABLED Associate
  /\ ~ENABLED LockPortMap

----------------------------------------------------------------------------
(* C14: in multiplexing mode the parent's copy of an accepted connection   *)
(* stays open from the accept through the whole of spawn_process and is    *)
(* closed by the one delete at the end of the loop body, on every path;    *)
(* it is never closed a second time.  Hence the parent still holds the     *)
(* descriptor at every moment up to and including the completed handoff.   *)
C14_ParentClosesOnce ==
  /\ [](conn # "closed_twice")
  /\ []((MultiplexingMode /\ pc \in LoopPcs) => conn = "open")
  /\ []((MultiplexingMode /\ pc = "accept" /\ naccepted > 0) =>
          conn = "closed")
  /\ [][(MultiplexingMode /\ conn = "open" /\ conn' # "open") =>
          /\ pc = "delete_conn"
          /\ pc' = "accept"
          /\ conn' = "closed"
          /\ Len(outcomes) = naccepted]_vars
  /\ [][(MultiplexingMode /\ pc = "delete_conn" /\ pc' # pc) =>
          conn = "open" /\ conn' = "closed"]_vars

\* the parent has closed its copy after a completed handoff, and the worker
\* that received the connection is running
C14_Witness ==
  /\ MultiplexingMode
  /\ pc = "accept"
  /\ conn = "closed"
  /\ outcomes # << >>
  /\ Last(outcomes) = "worker"
  /\ Alive(Len(workers))

----------------------------------------------------------------------------
(* C15: a session calls LaunchGDBServer at most once, at its start, and    *)
(* only with a non-empty inferior argument list on a connected platform;   *)
(* with an empty argument list the stub is never launched and no pending   *)
(* debug server is recorded.  A pending record exists only after a launch. *)
C15_StubLaunchedAtMostOnce ==
  /\ [](stub_launches <= 1 /\ stub_launches <= sessions)
  /\ [](stub_launches = 1 => args_count > 0 /\ connected)
  /\ [](args_count = 0 => stub_launches = 0 /\ ~pending_gdb_server)
  /\ [](pending_gdb_server => stub_launches = 1)
  /\ [][stub_launches' # stub_launches =>
          /\ pc = "client_handle"
          /\ sessions' = sessions + 1
          /\ stub_launches' = stub_launches + 1
          /\ args_count > 0
          /\ connected]_vars
  /\ [][pending_gdb_server' # pending_gdb_server =>
          stub_launches' = stub_launches + 1]_vars

\* a session that launched its stub, recorded it and went on to exchange
\* packets
C15_Witness ==
  /\ stub_launches = 1
  /\ pending_gdb_server
  /\ exchanges = MaxExchanges
  /\ pc = "session_loop"

----------------------------------------------------------------------------
(* C16: GetPacketAndSendResponse is called again exactly while every       *)
(* earlier call of the session returned Success and left both interrupt    *)
(* and done unset.  After the first call that fails, or that sets          *)
(* interrupt or done, the number of exchanges never changes again and the  *)
(* session ends: client_handle returns and the process exits.              *)
LoopContinues == pc = "session_loop" /\ ~interrupt /\ ~done

C16_SessionLoop ==
  /\ [][exchanges' # exchanges =>
          LoopContinues /\ exchanges' = exchanges + 1]_vars
  /\ []((LoopContinues /\ exchanges < MaxExchanges) =>
          ENABLED SessionExchange)
  /\ []((pc = "session_loop" /\ (interrupt \/ done)) =>
          ~ENABLED SessionExchange)
  /\ [][(pc = "session_loop" /\ pc' # pc) =>
          /\ pc' = "exiting"
          /\ exchanges' = exchanges \/ LoopContinues]_vars
  /\ [][(pc = "exiting" /\ pc' # pc) =>
          pc' = "exited" /\ exchanges' = exchanges]_vars
  /\ ((pc = "session_loop" /\ (interrupt \/ done)) ~> (pc = "exited"))
  /\ ((pc = "exiting") ~> (pc = "exited"))

\* the second exchange of a session set done: the loop is over
C16_Witness ==
  /\ pc = "session_loop"
  /\ exchanges = 2
  /\ done
  /\ ~interrupt

----------------------------------------------------------------------------
(* C17: when LaunchGDBServer fails at the start of a session, no pending   *)
(* debug server is recorded, the process goes on, and the session enters   *)
(* the request/response loop, where the first exchange can take place; if  *)
(* the process exits afterwards it is with the status of a normal session  *)
(* end.                                                                    *)
StubLaunchFailed == stub_launches = 1 /\ ~pending_gdb_server

C17_StubFailureNotFatal ==
  /\ [][(stub_launches' = stub_launches + 1 /\ ~pending_gdb_server') =>
          /\ pc = "client_handle"
          /\ pc' = "session_loop"
          /\ ~interrupt' /\ ~done'
          /\ exit_status' = exit_status]_vars
  /\ []((StubLaunchFailed /\ pc = "session_loop" /\ exchanges = 0) =>
          ENABLED SessionExchange)
  /\ [](StubLaunchFailed =>
          pc \in {"session_loop", "exiting", "exited"})
  /\ []((StubLaunchFailed /\ pc = "exited") => exit_status = 0)

\* a session whose stub failed to launch has exchanged a packet
C17_Witness ==
  /\ StubLaunchFailed
  /\ pc = "session_loop"
  /\ exchanges = 1
  /\ ~interrupt /\ ~done

----------------------------------------------------------------------------
(* C18: the socket id is written to the configured file at most once, by   *)
(* the step that follows a successful Listen and precedes the first        *)
(* Accept; a daemon with a file configured that reaches the accept step    *)
(* has written it exactly once, and one without a file never writes.  If   *)
(* the write fails the daemon exits with a nonzero status and has accepted *)
(* nothing.                                                                *)
C18_SocketFileWrittenOnce ==
  /\ [](socket_id_writes <= 1)
  /\ [](~socket_file => socket_id_writes = 0)
  /\ []((socket_file /\ (pc = "accept" \/ naccepted > 0)) =>
          socket_id_writes = 1)
  /\ [](error = "save_socket_id" =>
          /\ pc = "exited"
          /\ exit_status # 0
          /\ naccepted = 0
          /\ socket_id_writes = 0)
  /\ [][socket_id_writes' # socket_id_writes =>
          /\ socket_file
          /\ pc = "save_socket_id"
          /\ acceptor = "listening"
          /\ naccepted = 0
          /\ socket_id_writes' = 1
          /\ pc' = "accept"]_vars
  /\ [][(pc = "save_socket_id" /\ socket_file /\ pc' # pc) =>
          \/ socket_id_writes' = 1 /\ pc' = "accept"
          \/ pc' = "exited" /\ exit_status' # 0]_vars

\* a multiplexing daemon that wrote its socket file once has accepted
\* several connections
C18_Witness ==
  /\ socket_file
  /\ socket_id_writes = 1
  /\ naccepted >= 2
  /\ pc = "accept"

----------------------------------------------------------------------------
(* C19: a failed Accept ends the process with a nonzero status, in         *)
(* single-shot and in multiplexing mode alike.  The failing step accepts   *)
(* nothing, is not followed by another Accept, touches neither the workers *)
(* nor the port map, and after the exit the parent frees no port, reaps no *)
(* worker and signals none: the ports of the workers still running stay    *)
(* associated with them.                                                   *)
AcceptFailed == error = "accept"

C19_AcceptFailureIsFatal ==
  /\ [](AcceptFailed => pc = "exited" /\ exit_status # 0)
  /\ [][(AcceptFailed' /\ ~AcceptFailed) =>
          /\ pc = "accept"
          /\ pc' = "exited"
          /\ naccepted' = naccepted
          /\ workers' = workers
          /\ gdbserver_portmap' = gdbserver_portmap]_vars
  /\ [][pc = "exited" =>
          /\ pc' = "exited"
          /\ exit_status' = exit_status
          /\ naccepted' = naccepted
          /\ gdbserver_portmap' = gdbserver_portmap
          /\ \A w \in Pids :
               /\ workers'[w].signalled = workers[w].signalled
               /\ workers'[w].state = "reaped" => workers[w].state = "reaped"]_vars

\* the multiplexing daemon has exited on a failed Accept while a worker
\* is running and owns its port
C19_Witness ==
  /\ MultiplexingMode
  /\ AcceptFailed
  /\ pc = "exited"
  /\ exit_status = 255
  /\ \E w \in Pids : Alive(w) /\ gdbserver_portmap[workers[w].port] = w

----------------------------------------------------------------------------
(* C20: SIGHUP can end the process in every state in which it is alive,    *)
(* from option parsing on.  It does so in one step that changes nothing    *)
(* but the fact that the process is gone: no port is freed, no worker is   *)
(* signalled or reaped, no connection is closed.  Afterwards the process   *)
(* accepts nothing, launches nothing, runs no session step and frees no    *)
(* port.                                                                   *)
Aborted == pc = "aborted"

C20_SighupAborts ==
  /\ [](ParentAlive => ENABLED signal_handler)
  /\ [][(Aborted' /\ ~Aborted) =>
          /\ gdbserver_portmap' = gdbserver_portmap
          /\ platform_portmap' = platform_portmap
          /\ workers' = workers
          /\ conn' = conn
          /\ naccepted' = naccepted
          /\ outcomes' = outcomes
          /\ sessions' = sessions
          /\ exchanges' = exchanges
          /\ socket_id_writes' = socket_id_writes
          /\ gdbserver_portmap_mutex' = gdbserver_portmap_mutex]_vars
  /\ [][Aborted =>
          /\ Aborted'
          /\ gdbserver_portmap' = gdbserver_portmap
          /\ conn' = conn
          /\ naccepted' = naccepted
          /\ outcomes' = outcomes
          /\ sessions' = sessions
          /\ stub_launches' = stub_launches
          /\ exchanges' = exchanges
          /\ Len(workers') = Len(workers)
          /\ \A w \in Pids :
               /\ workers'[w].signalled = workers[w].signalled
               /\ workers'[w].state = "reaped" => workers[w].state = "reaped"]_vars

\* SIGHUP arrived in the middle of a spawn, with the connection open, a
\* port reserved for it and an earlier worker running on its own port
C20_Witness ==
  /\ Aborted
  /\ MultiplexingMode
  /\ conn = "open"
  /\ available_port # Nullopt
  /\ gdbserver_portmap[available_port] = Reserved
  /\ \E w \in Pids : Alive(w) /\ gdbserver_portmap[workers[w].port] = w

====
